---- MODULE Spec2Model ----
(***************************************************************************)
(* The two FM transmitters of training/ad9361_zed/tx-fm:                   *)
(*   prog = "stream"   tx-fm-zed.c          (samples read from stdin)      *)
(*   prog = "preload"  tx-fm-zed-preload.c  (a file loaded once, looped,   *)
(*                                           paced on CLOCK_MONOTONIC)     *)
(* Each main() is a sequential process whose position is pc; SIGINT is the *)
(* one asynchronous event.  libiio, the clock and the input are the        *)
(* environment: their outcomes are nondeterministic choices.               *)
(*                                                                         *)
(* Scale.  Frequencies are in units of 10 MHz and sample rates in units of *)
(* 40 kHz, so that a buffer holds a handful of slots.  The phase is kept   *)
(* on a lattice of TWO_PI points per turn (exact arithmetic stands for the *)
(* doubles), and fmod, the casts and the carry loop are computed as the C  *)
(* code computes them.                                                     *)
(***************************************************************************)
EXTENDS Integers, Sequences, FiniteSets, TLC

\* ------------------------------------------------------------- bounds
MaxLen == 3
\* longest input (samples in the file, items on stdin)
MaxCap == 3
\* largest buffer capacity a sample rate of the model gives
MaxPush == 4
\* pushes after which no further fill is started
JitterNs == 1000
\* lateness of a wake-up from clock_nanosleep, in ns

\* ---------------------------------------------------- program constants
MIN_CENTER_FREQ == 7
MAX_CENTER_FREQ == 600
MIN_SAMPLE_RATE == 25
MAX_SAMPLE_RATE == 1536
MAX_SAMPLE_VALUE == 32767
NSEC_PER_SEC == 1000000000
BUFFER_TIME_NS == 100000000
\* (long)(DEFAULT_BUFFER_TIME * 1e9) of the preload transmitter
TWO_PI == 8
\* lattice points per turn
DPHI == 3
\* lattice points of phase per unit of deviation

\* deviation samples (int16_t)
Dev == {-1, 0, 1}
\* what one read(STDIN_FILENO, &value, 2) returns: n bytes, and the value
\* when n = 2; n = 1 is a lone byte, n = 0 is end of file
Full(v) == [n |-> 2, value |-> v]
LoneByte == [n |-> 1, value |-> 0]
EndOfFile == [n |-> 0, value |-> 0]
StdinItems == {Full(v) : v \in Dev} \cup {LoneByte}
\* a slot no fill has written yet
UNWRITTEN == <<>>

CenterFreqs == {MIN_CENTER_FREQ - 1, MIN_CENTER_FREQ}
StreamRates == {-1, MIN_SAMPLE_RATE - 1, MAX_SAMPLE_RATE + 1}
                 \cup {25 * c : c \in 1..MaxCap}
PreloadRates == {0} \cup {10 * c : c \in 1..MaxCap}

SeqsUpTo(S, n) == UNION {[1..k -> S] : k \in 0..n}

\* ------------------------------------------------------ pure functions
Abs(x) == IF x < 0 THEN -x ELSE x

\* C's fmod: the remainder has the sign of the dividend
fmod(x, y) == IF x >= 0 THEN x % y ELSE -((-x) % y)

\* (int16_t)(double): truncation toward zero
Trunc(num, den) == IF num >= 0 THEN num \div den ELSE -((-num) \div den)

\* cos and sin on the lattice, times 10^4
COS_E4 == <<10000, 7071, 0, -7071, -10000, -7071, 0, 7071>>
SIN_E4 == <<0, 7071, 10000, 7071, 0, -7071, -10000, -7071>>
cosE4(p) == COS_E4[Abs(p) + 1]
sinE4(p) == IF p >= 0 THEN SIN_E4[p + 1] ELSE -SIN_E4[(-p) + 1]

\* modulate_sample storing the sum before its reduction
modulate_sample_unreduced(deviation, ph) ==
  LET signal == fmod(ph + deviation * DPHI, TWO_PI)
  IN [phase |-> ph + deviation * DPHI,
      i |-> Trunc(cosE4(signal) * MAX_SAMPLE_VALUE, 10000),
      q |-> Trunc(sinE4(signal) * MAX_SAMPLE_VALUE, 10000)]

\* modulate_sample reducing the increment alone, the old phase dropped
modulate_sample_no_accumulate(deviation, ph) ==
  LET signal == fmod(deviation * DPHI, TWO_PI)
  IN [phase |-> signal,
      i |-> Trunc(cosE4(signal) * MAX_SAMPLE_VALUE, 10000),
      q |-> Trunc(sinE4(signal) * MAX_SAMPLE_VALUE, 10000)]

modulate_sample(deviation, ph) ==
  LET phase_increment == deviation * DPHI
      signal == fmod(ph + phase_increment, TWO_PI)
  IN [phase |-> signal,
      i |-> Trunc(cosE4(signal) * MAX_SAMPLE_VALUE, 10000),
      q |-> Trunc(sinE4(signal) * MAX_SAMPLE_VALUE, 10000)]

\* the carry loop wrapping tv_nsec without counting the second
RECURSIVE CarryDroppingSeconds(_)
CarryDroppingSeconds(ts) ==
  IF ts.tv_nsec >= NSEC_PER_SEC
  THEN CarryDroppingSeconds([tv_sec |-> ts.tv_sec,
                             tv_nsec |-> ts.tv_nsec - NSEC_PER_SEC])
  ELSE ts

\* time_add_ns: add, then carry whole seconds
RECURSIVE Carry(_)
Carry(ts) == IF ts.tv_nsec >= NSEC_PER_SEC
             THEN Carry([tv_sec |-> ts.tv_sec + 1,
                         tv_nsec |-> ts.tv_nsec - NSEC_PER_SEC])
             ELSE ts
time_add_ns(ts, ns) == Carry([tv_sec |-> ts.tv_sec, tv_nsec |-> ts.tv_nsec + ns])

TimeLE(a, b) == a.tv_sec < b.tv_sec \/ (a.tv_sec = b.tv_sec /\ a.tv_nsec <= b.tv_nsec)
TimeMax(a, b) == IF TimeLE(a, b) THEN b ELSE a

\* buffer_len = (size_t)(DEFAULT_BUFFER_TIME * sample_rate): 0.04 s and 0.1 s
buffer_len(p, rate) == IF p = "stream" THEN (rate * 4) \div 100 ELSE rate \div 10

\* --------------------------------------------------------------- state
VARIABLES
  prog,            \* which transmitter runs
  pc,              \* position in main
  exitStatus,      \* "running", "exit0", "exit1", "killed" (SIGINT, default action)
  center_freq, sample_rate, input_filename,   \* the command line
  input, inputEof, \* the file's samples / the items stdin will yield, and
                   \* whether stdin reports end of file after them
  stop, handler,   \* the flag, and whether the SIGINT handler is installed
  attrWritten, lo_powerdown, chanEnabled, txbuf,   \* the hardware
  samples,         \* preload: the loaded array (total_samples = Len)
  index,           \* preload: sample cursor; stream: items read from stdin
  phase,           \* phase_accum / signal_phase
  slot, buf,       \* fill position and the buffer's slots
  now, t,          \* CLOCK_MONOTONIC, and the deadline
  \* history
  nPush, pushFailed, out, fed, t0, sigStop, pushesAfterSig,
  testedAfterSig, firstTest, exhausted, exhSlot, readsAfterExh,
  writesAfterExh, fillsAfterFail,
  laterPass, firstOut,   \* preload: a pass after the first has begun, and
                         \* the pairs the first pass wrote
  passPushes,            \* preload: pushes of the current pass
  fillStart,             \* preload: the cursor when the current fill began
  pushesSinceWait,       \* pushes since the last deadline wait (2 = more)
  nDestroy               \* calls of iio_buffer_destroy

hwVars == <<attrWritten, lo_powerdown, chanEnabled, txbuf>>
cfgVars == <<prog, center_freq, sample_rate, input_filename, input, inputEof>>
loopVars == <<samples, index, phase, slot, buf, now, t>>
histVars == <<nPush, pushFailed, out, fed, t0, pushesAfterSig, testedAfterSig,
              firstTest, exhausted, exhSlot, readsAfterExh, writesAfterExh,
              fillsAfterFail>>
sigVars == <<stop, handler, sigStop>>
passVars == <<laterPass, firstOut, passPushes, fillStart, pushesSinceWait,
              nDestroy>>
vars == <<pc, exitStatus, cfgVars, hwVars, loopVars, histVars, sigVars,
          passVars>>

ZeroTime == [tv_sec |-> 0, tv_nsec |-> 0]
StartTimes == {ZeroTime, [tv_sec |-> 0, tv_nsec |-> NSEC_PER_SEC - BUFFER_TIME_NS - 1]}

Init ==
  /\ prog \in {"stream", "preload"}
  /\ pc = "args"
  /\ exitStatus = "running"
  /\ center_freq \in CenterFreqs
  /\ sample_rate \in (IF prog = "stream" THEN StreamRates ELSE PreloadRates)
  /\ input_filename \in (IF prog = "stream" THEN {FALSE} ELSE BOOLEAN)
  /\ input \in (IF prog = "stream" THEN SeqsUpTo(StdinItems, MaxLen)
                                   ELSE SeqsUpTo(Dev, MaxLen))
  /\ inputEof \in (IF prog = "stream" THEN BOOLEAN ELSE {TRUE})
  /\ stop = FALSE /\ handler = FALSE /\ sigStop = FALSE
  /\ attrWritten = FALSE /\ lo_powerdown = 1 /\ chanEnabled = FALSE
  /\ txbuf = "none"
  /\ samples = <<>> /\ index = 0 /\ phase = 0 /\ slot = 0 /\ buf = <<>>
  /\ now \in (IF prog = "stream" THEN {ZeroTime} ELSE StartTimes)
  /\ t = ZeroTime
  /\ nPush = 0 /\ pushFailed = FALSE /\ out = <<>> /\ fed = <<>>
  /\ t0 = ZeroTime /\ pushesAfterSig = 0 /\ testedAfterSig = FALSE
  /\ firstTest = "none" /\ exhausted = FALSE /\ exhSlot = -1
  /\ readsAfterExh = 0 /\ writesAfterExh = 0 /\ fillsAfterFail = FALSE
  /\ laterPass = FALSE /\ firstOut = <<>> /\ passPushes = 0
  /\ fillStart = 0 /\ pushesSinceWait = 0 /\ nDestroy = 0

Alive == exitStatus = "running"

Exit(code) == /\ exitStatus' = (IF code = 0 THEN "exit0" ELSE "exit1")
              /\ pc' = "done"


\* ------------------------------------------------------------- SIGINT
\* signal_handler / handle_sig once installed; before that the default
\* action of SIGINT ends the process where it stands.  A handled signal
\* that arrives during clock_nanosleep ends the sleep early (EINTR; sleeps
\* are not restarted); read is restarted (signal() installs with SA_RESTART).
Sigint(interrupts) ==
  /\ Alive
  /\ interrupts => (handler /\ pc = "wait")
  /\ IF handler
       THEN /\ stop' = TRUE /\ sigStop' = TRUE
            /\ pc' = (IF interrupts THEN "inner" ELSE pc)
            /\ UNCHANGED exitStatus
       ELSE /\ exitStatus' = "killed"
            /\ UNCHANGED <<pc, stop, sigStop>>
  /\ pushesSinceWait' = (IF interrupts THEN 0 ELSE pushesSinceWait)
  /\ UNCHANGED <<handler, cfgVars, hwVars, loopVars, histVars, laterPass,
                 firstOut, passPushes, fillStart, nDestroy>>

\* ------------------------------------------------------------ start-up
ValidFreq(f) == ~(f < MIN_CENTER_FREQ \/ f > MAX_CENTER_FREQ)
ValidRate(r) == ~(r < MIN_SAMPLE_RATE \/ r > MAX_SAMPLE_RATE)

\* tx-fm-zed.c: the range checks on -f and -s
CheckArgsStream ==
  /\ Alive /\ pc = "args" /\ prog = "stream"
  /\ IF ValidFreq(center_freq) /\ ValidRate(sample_rate)
       THEN pc' = "ctx" /\ UNCHANGED exitStatus
       ELSE Exit(1)
  /\ UNCHANGED <<cfgVars, hwVars, loopVars, histVars, sigVars>>
  /\ UNCHANGED passVars

\* tx-fm-zed-preload.c: -i is required; -f and -s are taken as given
CheckArgsPreload ==
  /\ Alive /\ pc = "args" /\ prog = "preload"
  /\ IF input_filename
       THEN pc' = "signal" /\ UNCHANGED exitStatus
       ELSE Exit(1)
  /\ UNCHANGED <<cfgVars, hwVars, loopVars, histVars, sigVars>>
  /\ UNCHANGED passVars

\* signal(SIGINT, ...): line 77 of the preload program (before the file is
\* loaded), line 113 of the streaming program (after the buffer is created)
InstallHandler ==
  /\ Alive /\ pc = "signal"
  /\ handler' = TRUE
  /\ pc' = (IF prog = "stream" THEN "loop" ELSE "load")
  /\ UNCHANGED <<exitStatus, cfgVars, hwVars, loopVars, histVars, stop,
                 sigStop>>
  /\ UNCHANGED passVars

\* fopen, malloc, fread: ok = FALSE is fopen or malloc failing
LoadFile(ok) ==
  /\ Alive /\ pc = "load"
  /\ IF ok
       THEN /\ samples' = input /\ pc' = "ctx" /\ UNCHANGED exitStatus
       ELSE /\ Exit(1) /\ UNCHANGED samples
  /\ UNCHANGED <<cfgVars, hwVars, index, phase, slot, buf, now, t, histVars,
                 sigVars>>
  /\ UNCHANGED passVars

CreateContext(ok) ==
  /\ Alive /\ pc = "ctx"
  /\ IF ok THEN pc' = "find" /\ UNCHANGED exitStatus ELSE Exit(1)
  /\ UNCHANGED <<cfgVars, hwVars, loopVars, histVars, sigVars>>
  /\ UNCHANGED passVars

\* the devices (and, in the streaming program, the channels) are looked up
FindDevices(ok) ==
  /\ Alive /\ pc = "find"
  /\ IF ok THEN pc' = "configure" /\ UNCHANGED exitStatus ELSE Exit(1)
  /\ UNCHANGED <<cfgVars, hwVars, loopVars, histVars, sigVars>>
  /\ UNCHANGED passVars

\* frequency, powerdown = 0, gain, sampling frequency (bandwidth); the two
\* channels are enabled
ConfigureRadio ==
  /\ Alive /\ pc = "configure"
  /\ attrWritten' = TRUE /\ lo_powerdown' = 0 /\ chanEnabled' = TRUE
  /\ pc' = "buffer"
  /\ UNCHANGED <<exitStatus, txbuf, cfgVars, loopVars, histVars, sigVars>>
  /\ UNCHANGED passVars

\* iio_device_create_buffer; on NULL both programs return 1 at once
CreateBuffer(ok) ==
  /\ Alive /\ pc = "buffer"
  /\ IF ok
       THEN /\ txbuf' = "created"
            /\ buf' = [k \in 1..buffer_len(prog, sample_rate) |-> UNWRITTEN]
            /\ pc' = (IF prog = "stream" THEN "signal" ELSE "outer")
            /\ UNCHANGED exitStatus
       ELSE /\ Exit(1) /\ UNCHANGED <<txbuf, buf>>
  /\ UNCHANGED <<attrWritten, lo_powerdown, chanEnabled, cfgVars, samples,
                 index, phase, slot, now, t, histVars, sigVars>>
  /\ UNCHANGED passVars

\* --------------------------------------------------------- both loops
Capacity == Len(buf)

\* the phase a fill starts from: signal_phase / phase_accum as the previous
\* buffer left it (neither loop assigns it between two fills of a pass)
phase_at_fill_reset(ph) == 0
phase_at_fill(ph) == ph

Bump(n, b) == IF b THEN n + 1 ELSE n

\* first evaluation of the loop condition
FirstTest == IF firstTest = "none" THEN (IF stop THEN "stop" ELSE "run")
             ELSE firstTest

\* what one slot receives
WriteSlot(m) == /\ buf' = [buf EXCEPT ![slot + 1] = <<m.i, m.q>>]
                /\ out' = Append(out, <<m.i, m.q>>)
                /\ phase' = m.phase
                /\ slot' = slot + 1

\* the power-down written inside the loop's body: the loop condition is
\* evaluated again after it
PowerDownInsideLoop ==
  /\ Alive /\ pc = "shutdown"
  /\ lo_powerdown' = 1
  /\ pc' = (IF prog = "stream" THEN "loop" ELSE "outer")
  /\ UNCHANGED <<exitStatus, attrWritten, chanEnabled, txbuf, cfgVars,
                 loopVars, histVars, sigVars, passVars>>

\* iio_channel_attr_write_longlong(lo_chan, "powerdown", 1)
PowerDown ==
  /\ Alive /\ pc = "shutdown"
  /\ lo_powerdown' = 1
  /\ pc' = "release"
  /\ UNCHANGED <<exitStatus, attrWritten, chanEnabled, txbuf, cfgVars,
                 loopVars, histVars, sigVars>>
  /\ UNCHANGED passVars

\* iio_buffer_destroy, iio_channel_disable x2, iio_context_destroy, return 0
Release ==
  /\ Alive /\ pc = "release"
  /\ txbuf' = "destroyed" /\ chanEnabled' = FALSE
  /\ Exit(0)
  /\ UNCHANGED <<attrWritten, lo_powerdown, cfgVars, loopVars, histVars,
                 sigVars>>
  /\ nDestroy' = nDestroy + 1
  /\ UNCHANGED <<laterPass, firstOut, passPushes, fillStart, pushesSinceWait>>

\* -------------------------------------------------- streaming program
\* while (!stop)
StreamLoopTest ==
  /\ Alive /\ pc = "loop" /\ prog = "stream"
  /\ firstTest' = FirstTest
  /\ testedAfterSig' = (testedAfterSig \/ sigStop)
  /\ IF stop
       THEN /\ pc' = "shutdown"
            /\ UNCHANGED <<slot, phase, fillsAfterFail>>
       ELSE /\ nPush < MaxPush
            /\ pc' = "fill"
            /\ slot' = 0
            /\ phase' = phase_at_fill(phase)
            /\ fillsAfterFail' = (fillsAfterFail \/ pushFailed)
  /\ UNCHANGED <<exitStatus, cfgVars, hwVars, samples, index, buf, now, t,
                 nPush, pushFailed, out, fed, t0, pushesAfterSig, exhausted,
                 exhSlot, readsAfterExh, writesAfterExh, sigVars>>
  /\ UNCHANGED passVars

\* read(STDIN_FILENO, &value, 2) blocks while the feed is open and empty
ReadBlocks == index >= Len(input) /\ ~inputEof
ReadResult == IF index < Len(input) THEN input[index + 1] ELSE EndOfFile

\* get_next_sample: anything but 2 bytes sets stop and yields 0
get_next_sample(r) == IF r.n # 2 THEN [value |-> 0, stop |-> TRUE]
                      ELSE [value |-> r.value, stop |-> stop]

\* one turn of the for loop: get_next_sample, modulate_sample, two stores
StreamFillSlot ==
  /\ Alive /\ pc = "fill" /\ prog = "stream"
  /\ slot < Capacity
  /\ ~ReadBlocks
  /\ LET r == ReadResult
         g == get_next_sample(r)
         m == modulate_sample(g.value, phase)
     IN /\ index' = (IF index < Len(input) THEN index + 1 ELSE index)
        /\ stop' = g.stop
        /\ WriteSlot(m)
        /\ fed' = Append(fed, g.value)
        /\ exhausted' = (exhausted \/ r.n # 2)
        /\ exhSlot' = (IF r.n # 2 /\ ~exhausted THEN slot ELSE exhSlot)
        /\ readsAfterExh' = Bump(readsAfterExh, exhausted)
        /\ writesAfterExh' = Bump(writesAfterExh, exhausted \/ r.n # 2)
  /\ UNCHANGED <<pc, exitStatus, cfgVars, hwVars, samples, now, t, nPush,
                 pushFailed, t0, pushesAfterSig, testedAfterSig, firstTest,
                 fillsAfterFail, handler, sigStop>>
  /\ UNCHANGED passVars

\* iio_buffer_push; nbytes < 0 breaks out of the loop
StreamPush(ok) ==
  /\ Alive /\ pc = "fill" /\ prog = "stream"
  /\ ~(slot < Capacity)
  /\ nPush' = nPush + 1
  /\ pushesAfterSig' = Bump(pushesAfterSig, sigStop)
  /\ pushFailed' = (pushFailed \/ ~ok)
  /\ pc' = (IF ok THEN "loop" ELSE "shutdown")
  /\ UNCHANGED <<exitStatus, cfgVars, hwVars, loopVars, out, fed, t0,
                 testedAfterSig, firstTest, exhausted, exhSlot, readsAfterExh,
                 writesAfterExh, fillsAfterFail, sigVars>>
  /\ pushesSinceWait' = (IF pushesSinceWait >= 1 THEN 2 ELSE 1)
  /\ UNCHANGED <<laterPass, firstOut, passPushes, fillStart, nDestroy>>

\* ---------------------------------------------------- preload program
\* the phase a pass starts from: phase_accum = 0.0 at the top of the outer
\* loop's body
phase_at_pass_kept(ph) == ph
phase_at_pass(ph) == 0

\* outer while (!stop): phase_accum = 0, index = 0, clock_gettime(&t)
OuterTest ==
  /\ Alive /\ pc = "outer" /\ prog = "preload"
  /\ firstTest' = FirstTest
  /\ testedAfterSig' = (testedAfterSig \/ sigStop)
  /\ IF stop
       THEN /\ pc' = "shutdown"
            /\ UNCHANGED <<phase, index, t, t0, out, fed, laterPass,
                           firstOut, passPushes>>
       ELSE /\ pc' = "inner"
            /\ phase' = phase_at_pass(phase)
            /\ index' = 0
            /\ t' = now
            /\ t0' = (IF firstTest = "none" THEN now ELSE t0)
            /\ out' = <<>> /\ fed' = <<>>
            /\ laterPass' = (firstTest # "none")
            /\ firstOut' = (IF firstTest # "none" /\ ~laterPass THEN out
                            ELSE firstOut)
            /\ passPushes' = 0
  /\ UNCHANGED <<exitStatus, cfgVars, hwVars, samples, slot, buf, now, nPush,
                 pushFailed, pushesAfterSig, exhausted, exhSlot,
                 readsAfterExh, writesAfterExh, fillsAfterFail, sigVars>>
  /\ UNCHANGED <<fillStart, pushesSinceWait, nDestroy>>

\* the condition of the inner while
InnerContinueIgnoringStop == index < Len(samples)
InnerContinue == ~stop /\ index < Len(samples)

InnerTest ==
  /\ Alive /\ pc = "inner" /\ prog = "preload"
  /\ testedAfterSig' = (testedAfterSig \/ sigStop)
  /\ IF InnerContinue
       THEN /\ nPush < MaxPush
            /\ pc' = "fill"
            /\ slot' = 0
            /\ phase' = phase_at_fill(phase)
            /\ fillsAfterFail' = (fillsAfterFail \/ pushFailed)
       ELSE /\ pc' = "outer"
            /\ UNCHANGED <<slot, phase, fillsAfterFail>>
  /\ UNCHANGED <<exitStatus, cfgVars, hwVars, samples, index, buf, now, t,
                 nPush, pushFailed, out, fed, t0, pushesAfterSig, firstTest,
                 exhausted, exhSlot, readsAfterExh, writesAfterExh, sigVars>>
  /\ fillStart' = (IF InnerContinue THEN index ELSE fillStart)
  /\ UNCHANGED <<laterPass, firstOut, passPushes, pushesSinceWait, nDestroy>>

\* the for condition stopping one slot short of the buffer's end
FillMoreOneShort == slot < Capacity - 1 /\ index < Len(samples)

\* the for condition running one slot past the buffer's end
FillMoreOnePast == slot <= Capacity /\ index < Len(samples)

\* the condition of the for loop
FillMore == slot < Capacity /\ index < Len(samples)

\* modulate_sample(samples[index++], &i, &q) and the two stores
PreloadFillSlot ==
  /\ Alive /\ pc = "fill" /\ prog = "preload"
  /\ FillMore
  /\ LET m == modulate_sample(samples[index + 1], phase)
     IN /\ WriteSlot(m)
        /\ fed' = Append(fed, samples[index + 1])
  /\ index' = index + 1
  /\ UNCHANGED <<pc, exitStatus, cfgVars, hwVars, samples, now, t, nPush,
                 pushFailed, t0, pushesAfterSig, testedAfterSig, firstTest,
                 exhausted, exhSlot, readsAfterExh, writesAfterExh,
                 fillsAfterFail, sigVars>>
  /\ UNCHANGED passVars

\* iio_buffer_push (its result is not looked at), then time_add_ns
PreloadPush(ok) ==
  /\ Alive /\ pc = "fill" /\ prog = "preload"
  /\ ~FillMore
  /\ nPush' = nPush + 1
  /\ pushesAfterSig' = Bump(pushesAfterSig, sigStop)
  /\ pushFailed' = (pushFailed \/ ~ok)
  /\ t' = time_add_ns(t, BUFFER_TIME_NS)
  /\ pc' = "wait"
  /\ UNCHANGED <<exitStatus, cfgVars, hwVars, samples, index, phase, slot,
                 buf, now, out, fed, t0, testedAfterSig, firstTest, exhausted,
                 exhSlot, readsAfterExh, writesAfterExh, fillsAfterFail,
                 sigVars>>
  /\ pushesSinceWait' = (IF pushesSinceWait >= 1 THEN 2 ELSE 1)
  /\ passPushes' = passPushes + 1
  /\ UNCHANGED <<laterPass, firstOut, fillStart, nDestroy>>

\* clock_nanosleep(CLOCK_MONOTONIC, TIMER_ABSTIME, target): returns no
\* earlier than the target, late by j
wait_until(j) ==
  /\ Alive /\ pc = "wait"
  /\ now' = time_add_ns(TimeMax(now, t), j)
  /\ pc' = "inner"
  /\ UNCHANGED <<exitStatus, cfgVars, hwVars, samples, index, phase, slot,
                 buf, t, histVars, sigVars>>
  /\ pushesSinceWait' = 0
  /\ UNCHANGED <<laterPass, firstOut, passPushes, fillStart, nDestroy>>

\* ------------------------------------------------------ specifications
Startup ==
  \/ CheckArgsStream
  \/ CheckArgsPreload
  \/ InstallHandler
  \/ \E ok \in BOOLEAN : LoadFile(ok)
  \/ \E ok \in BOOLEAN : CreateContext(ok)
  \/ \E ok \in BOOLEAN : FindDevices(ok)
  \/ ConfigureRadio
  \/ \E ok \in BOOLEAN : CreateBuffer(ok)

Program ==
  \/ Startup
  \/ StreamLoopTest
  \/ StreamFillSlot
  \/ \E ok \in BOOLEAN : StreamPush(ok)
  \/ OuterTest
  \/ InnerTest
  \/ PreloadFillSlot
  \/ \E ok \in BOOLEAN : PreloadPush(ok)
  \/ \E j \in {0, JitterNs} : wait_until(j)
  \/ PowerDown
  \/ Release

Next == Program \/ \E interrupts \in BOOLEAN : Sigint(interrupts)

Spec == Init /\ [][Next]_vars

\* the process is scheduled: whenever it can take a step it eventually does
FairSpec == Spec /\ WF_vars(Program)


\* ---------------------------------------------------------------- claims
Running == Alive /\ pc \in {"loop", "outer", "inner", "fill", "wait"}
ShuttingDown == pc \in {"shutdown", "release", "done"}

\* the I/Q sequence one unbroken run of the modulator gives for devs
RECURSIVE UnchunkedFrom(_, _)
UnchunkedFrom(devs, ph) ==
  IF devs = <<>> THEN <<>>
  ELSE LET m == modulate_sample(Head(devs), ph)
       IN <<(<<m.i, m.q>>)>> \o UnchunkedFrom(Tail(devs), m.phase)
Unchunked(devs) == UnchunkedFrom(devs, 0)

\* C1: the (I, Q) pairs written so far (in this pass of the preloaded
\* source, in the whole run of the streaming source) are those of one
\* unbroken run of the modulator over the deviations fed so far, whatever
\* the buffer capacity; in the preload program the deviations fed are the
\* first index samples of the file.
C1_PhaseContinuity ==
  /\ out = Unchunked(fed)
  /\ prog = "preload" => fed = SubSeq(samples, 1, index)

\* C1 witness: a second buffer has been started and its first slot differs
\* from what a phase reset at the buffer boundary would have put there.
C1_Witness ==
  /\ Capacity >= 1 /\ Len(out) > Capacity
  /\ LET m == modulate_sample(fed[Capacity + 1], 0)
     IN out[Capacity + 1] # <<m.i, m.q>>

\* the deadline n buffer durations after d
DeadlineAfter(d, n) ==
  LET ns == d.tv_nsec + n * BUFFER_TIME_NS
  IN [tv_sec |-> d.tv_sec + ns \div NSEC_PER_SEC, tv_nsec |-> ns % NSEC_PER_SEC]

\* C2: in the preload program the deadline waited on after the Nth push of
\* the session is the first clock reading plus N buffer durations.
C2_DeadlineFromFirstReading ==
  (prog = "preload" /\ pc = "wait") => t = DeadlineAfter(t0, nPush)

\* C3: once stop is true while the loop is running, the loop is eventually
\* left for the shutdown sequence.
C3_StopLeadsToShutdown == (Running /\ stop) ~> ShuttingDown

\* C4: after the handler has set stop at most one more buffer is pushed; once
\* the loop condition has been evaluated after that, no fill or push follows;
\* and with stop set at the first evaluation nothing is pushed at all.
C4_AtMostOnePushAfterSignal ==
  /\ pushesAfterSig <= 1
  /\ testedAfterSig => pc \in {"outer", "shutdown", "release", "done"}
  /\ firstTest = "stop" => nPush = 0

\* C4 witness: a run stopped by SIGINT in mid-fill that pushed that buffer
\* and then shut down.
C4_Witness == pushesAfterSig = 1 /\ testedAfterSig /\ exitStatus = "exit0"

\* C5: SIGINT never ends the process with the oscillator powered.
C5_SigintNeverLeavesLoPowered == exitStatus = "killed" => lo_powerdown = 1

\* C6: in the streaming program nothing is written to the buffer from the
\* slot at which the source was found exhausted onwards.
C6_FillStopsAtExhaustion == prog = "stream" => writesAfterExh = 0

\* C7: get_next_sample is not called again once it has seen a short read.
C7_NoReadAfterExhaustion == prog = "stream" => readsAfterExh = 0

\* C8: after a push has reported an error no further buffer is filled.
C8_PushFailureEndsLoop == ~fillsAfterFail

\* C9: an exit with a non-zero status leaves powerdown = 1.
C9_FatalExitPowersDown == exitStatus = "exit1" => lo_powerdown = 1

\* C10: with a frequency or sample rate out of range, or no input file, no
\* hardware attribute is written and the loop is not entered.
BadConfiguration ==
  \/ ~ValidFreq(center_freq)
  \/ ~ValidRate(sample_rate)
  \/ (prog = "preload" /\ ~input_filename)
C10_BadConfigurationTouchesNothing ==
  BadConfiguration => (~attrWritten /\ ~Running)


\* C11: in the preload program a sample at cursor 0 is modulated from phase
\* 0, and once a later pass has begun the first pass was a whole pass over
\* the L samples and the pairs of the current pass are, position by
\* position, those of the first pass.
C11_LaterPassRepeatsFirst ==
  prog = "preload" =>
    /\ (pc \in {"inner", "fill"} /\ index = 0) => phase = 0
    /\ laterPass =>
         /\ Len(firstOut) = Len(samples)
         /\ Len(out) <= Len(firstOut)
         /\ \A k \in 1..Len(out) : out[k] = firstOut[k]

\* C11 witness: a later pass has been modulated to its end and the phase it
\* ends on is not 0, so the reset at the pass boundary mattered.
C11_Witness ==
  /\ prog = "preload" /\ laterPass
  /\ Len(samples) >= 2 /\ Len(out) = Len(samples)
  /\ phase # 0


\* the sum of a sequence of deviations
RECURSIVE SumOf(_)
SumOf(devs) == IF devs = <<>> THEN 0 ELSE Head(devs) + SumOf(Tail(devs))

\* C12 as stated: the phase accumulator lies in [0, 2 pi).
C12_PhaseInZeroToTwoPi == 0 <= phase /\ phase < TWO_PI

\* C12, amended: the phase accumulator lies in (-2 pi, 2 pi); fmod gives
\* the remainder the sign of the sum, so a negative sum stays negative.
C12_PhaseWithinOneTurn == -TWO_PI < phase /\ phase < TWO_PI

\* C12 witness: the deviations fed add up to a turn or more, in either
\* direction, so the reduction has acted.
C12_Witness == Abs(SumOf(fed)) * DPHI >= TWO_PI /\ Len(out) = Len(fed)


\* the pair a phase stands for
PairOf(ph) == <<Trunc(cosE4(ph) * MAX_SAMPLE_VALUE, 10000),
                Trunc(sinE4(ph) * MAX_SAMPLE_VALUE, 10000)>>

\* a step that passed deviation d to modulate_sample
Modulated(d) == Len(fed') = Len(fed) + 1 /\ fed'[Len(fed')] = d

\* C13: a call of modulate_sample with deviation 0 leaves the phase as it
\* was and writes the pair of that phase (after a failed read, in the
\* streaming program, the deviation is 0).
C13_ZeroDeviationKeepsPhase ==
  [][Modulated(0) => (phase' = phase /\ out' = Append(out, PairOf(phase)))]_vars

\* C13 witness: a zero deviation has just been modulated at a phase that is
\* neither 0 nor positive.
C13_Witness ==
  /\ Len(fed) >= 2 /\ fed[Len(fed)] = 0 /\ Len(out) = Len(fed)
  /\ phase < 0


\* C14: in either program no two buffers are pushed without a wait on the
\* pacing deadline between them.
C14_WaitBetweenPushes == pushesSinceWait <= 1


\* a timespec with 0 <= tv_nsec < 10^9
Normalised(ts) == 0 <= ts.tv_nsec /\ ts.tv_nsec < NSEC_PER_SEC

\* b is a normalised timespec exactly ns nanoseconds after a
AddedExactly(a, b, ns) ==
  /\ Normalised(b)
  /\ (b.tv_sec - a.tv_sec) * NSEC_PER_SEC + (b.tv_nsec - a.tv_nsec) = ns

\* amounts added: none, one ns, a buffer duration, a whole second and more
AddedNs == {0, 1, BUFFER_TIME_NS, NSEC_PER_SEC, NSEC_PER_SEC + BUFFER_TIME_NS}

CeilDiv(a, b) == (a + b - 1) \div b

\* a pass of the preload program has run to its end and the next has not begun
PassOver == /\ prog = "preload" /\ pc = "outer" /\ Alive
            /\ firstTest # "none" /\ ~stop

\* C16: in the preload program with capacity C > 0, every fill of a pass
\* starts at slot 0 behind whole buffers, a pass over L samples ends after
\* exactly ceil(L / C) pushes, and when L is not a multiple of C the last
\* buffer is pushed with L mod C slots rewritten, the slots after them as
\* the previous buffer of the pass left them (never written, if there was
\* none).
C16_PushesPerPass ==
  (prog = "preload" /\ Capacity > 0) =>
    /\ pc = "fill" => index = passPushes * Capacity + slot
    /\ pc \in {"wait", "inner"} => passPushes = CeilDiv(index, Capacity)
    /\ PassOver => (index = Len(samples)
                    /\ passPushes = CeilDiv(Len(samples), Capacity))
    /\ (pc = "wait" /\ index = Len(samples) /\ index % Capacity # 0) =>
         /\ slot = index % Capacity
         /\ \A k \in (slot + 1)..Capacity :
              buf[k] = (IF passPushes >= 2
                          THEN out[(passPushes - 2) * Capacity + k]
                          ELSE UNWRITTEN)

\* C16 witness: the second and last buffer of a pass has been pushed partly
\* rewritten.
C16_Witness ==
  /\ prog = "preload" /\ pc = "wait" /\ Capacity > 0
  /\ index = Len(samples) /\ index % Capacity # 0 /\ passPushes >= 2


\* C17: in the preload program every pass that ends with stop not set has
\* pushed a buffer (and so has waited on a deadline) before the next begins.
C17_EveryPassPushes == PassOver => passPushes >= 1


\* C18: in the preload program the cursor never passes total_samples, a
\* fill never goes past the buffer's last slot, and during and after a fill
\* the cursor has advanced by one sample for each slot written.
C18_FillStaysInBounds ==
  prog = "preload" =>
    /\ index <= Len(samples)
    /\ slot <= Capacity
    /\ pc \in {"fill", "wait"} => index = fillStart + slot

\* C18 witness: a fill other than the first of its pass has written every
\* slot of the buffer with samples still left.
C18_Witness ==
  /\ prog = "preload" /\ pc = "fill"
  /\ fillStart > 0 /\ slot = Capacity /\ index < Len(samples)


\* the shutdown sequence has begun: powerdown = 1 written after power-up
ShutdownBegun == attrWritten /\ lo_powerdown = 1

\* C19: once the shutdown sequence has begun it stays begun, no slot is
\* written and no buffer pushed, and the loop is not running again; the
\* buffer is destroyed at most once, only within the shutdown sequence, and
\* exactly once by the time the program returns 0.
C19_ShutdownIsFinal ==
  /\ [][ShutdownBegun => /\ ShutdownBegun'
                         /\ nPush' = nPush /\ out' = out /\ buf' = buf
                         /\ ~Running']_vars
  /\ [](/\ nDestroy <= 1
        /\ (txbuf = "destroyed") = (nDestroy = 1)
        /\ nDestroy = 1 => ShutdownBegun
        /\ exitStatus = "exit0" => nDestroy = 1)

\* C19 witness: a session that pushed buffers has shut down and returned 0.
C19_Witness ==
  exitStatus = "exit0" /\ nPush >= 2 /\ nDestroy = 1 /\ lo_powerdown = 1

====
